---- MODULE Spec2Model ----
(***************************************************************************)
(* Model of the configuration loader of polaris (src/src/config.rs):       *)
(* Config::parse, its six field parsers and clean_path_string.             *)
(*                                                                         *)
(* Strings are sequences of one-character strings, so that splitting and   *)
(* concatenation are computed.  A toml::Value is a record of one shape     *)
(* (type, str, int, items, fields) of which only the part named by `type`  *)
(* is meaningful.  A 64-bit integer is a sequence of four 16-bit limbs,    *)
(* most significant first; an i64 is its sign and magnitude.               *)
(***************************************************************************)
EXTENDS Integers, Sequences, FiniteSets, TLC

\* ------------------------------------------------------------------ bounds

\* Longest path string given to clean_path_string on its own.
MaxLen == 4
\* Most records in a mount_dirs array.
MaxMounts == 3
\* Most records in a users array.
MaxUsers == 2

\* ---------------------------------------------------------------- options

None == [some |-> FALSE]
Some(v) == [some |-> TRUE, val |-> v]

\* ------------------------------------------------------- 64-bit integers

LimbBase == 2 ^ 16
LimbMax == LimbBase - 1

U64Zero == <<0, 0, 0, 0>>
U64Max == <<LimbMax, LimbMax, LimbMax, LimbMax>>

\* x + y + c on limbs i..1 counted from the least significant end:
\* [sum |-> limbs, carry |-> 0 or 1].
RECURSIVE AddFrom(_, _, _, _)
AddFrom(x, y, i, c) ==
    IF i = 0 THEN [sum |-> <<>>, carry |-> c]
    ELSE LET t == x[i] + y[i] + c
             rest == AddFrom(x, y, i - 1, t \div LimbBase)
         IN  [sum |-> Append(rest.sum, t % LimbBase), carry |-> rest.carry]

AddU64(x, y) == AddFrom(x, y, Len(x), 0)

\* The two's complement of a magnitude: every bit flipped, plus one,
\* the carry out of the top limb dropped.
TwosComplement(mag) ==
    AddU64([i \in 1..Len(mag) |-> LimbMax - mag[i]], <<0, 0, 0, 1>>).sum

\* The mutant of AsU64: a cast that keeps the magnitude of a negative value.
AsU64Abs(n) == n.mag

\* `s as u64` of an i64 s: the same 64 bits read as unsigned.
AsU64(n) == IF n.neg THEN TwosComplement(n.mag) ELSE n.mag

\* ------------------------------------------------------------ toml values

NoFields == [k \in {} |-> 0]
I64Zero == [neg |-> FALSE, mag |-> U64Zero]

VString(s) ==
    [type |-> "String", str |-> s, int |-> I64Zero, items |-> <<>>, fields |-> NoFields]
VInteger(n) ==
    [type |-> "Integer", str |-> <<>>, int |-> n, items |-> <<>>, fields |-> NoFields]
VArray(a) ==
    [type |-> "Array", str |-> <<>>, int |-> I64Zero, items |-> a, fields |-> NoFields]
VTable(t) ==
    [type |-> "Table", str |-> <<>>, int |-> I64Zero, items |-> <<>>, fields |-> t]

\* Table::get
Get(table, key) == IF key \in DOMAIN table THEN Some(table[key]) ELSE None

\* Value::lookup with a path of one key: a table is searched, an array takes
\* the key for an index (which no key here is), anything else has no members.
Lookup(value, key) ==
    IF value.type = "Table" THEN Get(value.fields, key) ELSE None

\* Value::as_str
AsStr(value) == IF value.type = "String" THEN Some(value.str) ELSE None

\* ------------------------------------------------------------------ paths

Separators == {"\\", "/"}
SeparatorsForwardOnly == {"/"}

\* Regex::split: the pieces between the matches, empty ones kept.
RECURSIVE SplitFrom(_, _, _, _, _)
SplitFrom(s, seps, i, cur, acc) ==
    IF i > Len(s) THEN Append(acc, cur)
    ELSE IF s[i] \in seps THEN SplitFrom(s, seps, i + 1, <<>>, Append(acc, cur))
    ELSE SplitFrom(s, seps, i + 1, Append(cur, s[i]), acc)

\* PathBuf::push on a platform whose separator is "/": an absolute component
\* replaces the path, otherwise a separator is added unless the path is empty
\* or ends with one.
PathBufPush(path, component) ==
    LET need_sep == Len(path) > 0 /\ path[Len(path)] # "/"
        absolute == Len(component) > 0 /\ component[1] = "/"
    IN  IF absolute THEN component
        ELSE IF need_sep THEN path \o <<"/">> \o component
        ELSE path \o component

RECURSIVE PushAll(_, _, _)
PushAll(path, components, i) ==
    IF i > Len(components) THEN path
    ELSE PushAll(PathBufPush(path, components[i]), components, i + 1)

\* The mutant of clean_path_string: only the forward slash separates.
clean_path_string_forward_only(path_string) ==
    PushAll(<<>>, SplitFrom(path_string, SeparatorsForwardOnly, 1, <<>>, <<>>), 1)

clean_path_string(path_string) ==
    PushAll(<<>>, SplitFrom(path_string, Separators, 1, <<>>, <<>>), 1)

\* Path::components, by which two PathBuf compare: the root, then the names
\* between separators; empty names and "." are skipped, except a leading "."
\* of a path without root.
RECURSIVE KeepNames(_, _, _)
KeepNames(segs, i, rooted) ==
    IF i > Len(segs) THEN <<>>
    ELSE LET seg == segs[i]
             skip == seg = <<>> \/ (seg = <<".">> /\ (i > 1 \/ rooted))
         IN  (IF skip THEN <<>> ELSE <<seg>>) \o KeepNames(segs, i + 1, rooted)

Components(path) ==
    LET rooted == Len(path) > 0 /\ path[1] = "/"
    IN  [root |-> rooted,
         names |-> KeepNames(SplitFrom(path, {"/"}, 1, <<>>, <<>>), 1, rooted)]

\* -------------------------------------------------------------- constants

INDEX_FILE_NAME == <<"i", "n", "d", "e", "x", ".", "s", "q", "l", "i", "t", "e">>
CONFIG_SECRET == "auth_secret"
CONFIG_MOUNT_DIRS == "mount_dirs"
CONFIG_MOUNT_DIR_NAME == "name"
CONFIG_MOUNT_DIR_SOURCE == "source"
CONFIG_USERS == "users"
CONFIG_USER_NAME == "name"
CONFIG_USER_PASSWORD == "password"
CONFIG_ALBUM_ART_PATTERN == "album_art_pattern"
CONFIG_INDEX_SLEEP_DURATION == "reindex_every_n_seconds"
CONFIG_DDNS == "ydns"
CONFIG_DDNS_HOST == "host"
CONFIG_DDNS_USERNAME == "username"
CONFIG_DDNS_PASSWORD == "password"

\* ---------------------------------------------------------- collaborators

\* IndexConfig::new(): the built-in reindex interval (1800 seconds stands for
\* it), no album-art pattern, and a path that is no file of the cache root.
DefaultSleepDuration == <<0, 0, 0, 1800>>
IndexConfigNew ==
    [sleep_duration |-> DefaultSleepDuration,
     album_art_pattern |-> None,
     path |-> <<":", "m", "e", "m", ":">>]

\* VfsConfig::new(): no mount point.
VfsConfigNew == [mount_points |-> NoFields]

\* User::new(name, password)
UserNew(name, password) == [name |-> name, password |-> password]

\* regex::Regex::new: a pattern compiles unless its parentheses are unbalanced.
RECURSIVE ParenDepth(_, _, _)
ParenDepth(p, i, depth) ==
    IF depth < 0 THEN depth
    ELSE IF i > Len(p) THEN depth
    ELSE ParenDepth(p, i + 1,
                    depth + (IF p[i] = "(" THEN 1 ELSE IF p[i] = ")" THEN -1 ELSE 0))

RegexNew(pattern) == IF ParenDepth(pattern, 1, 0) = 0 THEN Some(pattern) ELSE None

\* The Config that Config::parse builds before it runs the field parsers.
ConfigNew ==
    [secret |-> <<>>,
     vfs |-> VfsConfigNew,
     users |-> <<>>,
     index |-> IndexConfigNew,
     ddns |-> None]

\* A field parser's outcome: the Config as the call leaves it, and Ok or the
\* error returned.
Outcome(self, result) == [self |-> self, result |-> result]

\* ---------------------------------------------------------- field parsers

\* The mutant of parse_secret: a document without secret keeps the empty one.
parse_secret_optional(self, source) ==
    LET secret == Get(source, CONFIG_SECRET)
    IN  IF ~secret.some THEN Outcome(self, "Ok")
        ELSE IF ~AsStr(secret.val).some THEN Outcome(self, "SecretParseError")
        ELSE Outcome([self EXCEPT !.secret = AsStr(secret.val).val], "Ok")

parse_secret(self, source) ==
    LET secret == Get(source, CONFIG_SECRET)
    IN  IF ~secret.some THEN Outcome(self, "SecretParseError")
        ELSE IF ~AsStr(secret.val).some THEN Outcome(self, "SecretParseError")
        ELSE Outcome([self EXCEPT !.secret = AsStr(secret.val).val], "Ok")

\* The mutant of parse_index_sleep_duration: an absent key resets the interval.
parse_index_sleep_duration_reset(self, source) ==
    LET sleep_duration == Get(source, CONFIG_INDEX_SLEEP_DURATION)
    IN  IF ~sleep_duration.some
        THEN Outcome([self EXCEPT !.index.sleep_duration = U64Zero], "Ok")
        ELSE IF sleep_duration.val.type # "Integer"
        THEN Outcome(self, "SleepDurationParseError")
        ELSE Outcome([self EXCEPT !.index.sleep_duration = AsU64(sleep_duration.val.int)],
                     "Ok")

parse_index_sleep_duration(self, source) ==
    LET sleep_duration == Get(source, CONFIG_INDEX_SLEEP_DURATION)
    IN  IF ~sleep_duration.some THEN Outcome(self, "Ok")
        ELSE IF sleep_duration.val.type # "Integer"
        THEN Outcome(self, "SleepDurationParseError")
        ELSE Outcome([self EXCEPT !.index.sleep_duration = AsU64(sleep_duration.val.int)],
                     "Ok")

parse_album_art_pattern(self, source) ==
    LET pattern == Get(source, CONFIG_ALBUM_ART_PATTERN)
    IN  IF ~pattern.some THEN Outcome(self, "Ok")
        ELSE IF pattern.val.type # "String"
        THEN Outcome(self, "AlbumArtPatternParseError")
        ELSE IF ~RegexNew(pattern.val.str).some THEN Outcome(self, "RegexError")
        ELSE Outcome([self EXCEPT !.index.album_art_pattern =
                                      Some(RegexNew(pattern.val.str).val)], "Ok")

\* The loop of parse_users from record i on: each record's name and password
\* are looked up and must be strings; the user is pushed before the next
\* record is looked at.
RECURSIVE parse_users_loop(_, _, _)
parse_users_loop(self, users, i) ==
    IF i > Len(users) THEN Outcome(self, "Ok")
    ELSE LET user == users[i]
             name == Lookup(user, CONFIG_USER_NAME)
             password == Lookup(user, CONFIG_USER_PASSWORD)
         IN  IF ~name.some THEN Outcome(self, "UsersParseError")
             ELSE IF ~AsStr(name.val).some THEN Outcome(self, "UsersParseError")
             ELSE IF ~password.some THEN Outcome(self, "UsersParseError")
             ELSE IF ~AsStr(password.val).some THEN Outcome(self, "UsersParseError")
             ELSE parse_users_loop(
                      [self EXCEPT !.users =
                           Append(@, UserNew(AsStr(name.val).val, AsStr(password.val).val))],
                      users, i + 1)

\* A mutant of parse_users: the last record of the array is not looked at.
parse_users_drop_last(self, source) ==
    LET users == Get(source, CONFIG_USERS)
    IN  IF ~users.some THEN Outcome(self, "Ok")
        ELSE IF users.val.type # "Array" THEN Outcome(self, "UsersParseError")
        ELSE parse_users_loop(self, SubSeq(users.val.items, 1, Len(users.val.items) - 1), 1)

\* A mutant of parse_users: a failure leaves the users list as it was.
parse_users_rollback(self, source) ==
    LET users == Get(source, CONFIG_USERS)
        outcome == parse_users_loop(self, users.val.items, 1)
    IN  IF ~users.some THEN Outcome(self, "Ok")
        ELSE IF users.val.type # "Array" THEN Outcome(self, "UsersParseError")
        ELSE IF outcome.result = "Ok" THEN outcome
        ELSE Outcome(self, outcome.result)

parse_users(self, source) ==
    LET users == Get(source, CONFIG_USERS)
    IN  IF ~users.some THEN Outcome(self, "Ok")
        ELSE IF users.val.type # "Array" THEN Outcome(self, "UsersParseError")
        ELSE parse_users_loop(self, users.val.items, 1)

\* HashMap::insert
Insert(map, key, value) == [k \in DOMAIN map \cup {key} |-> IF k = key THEN value ELSE map[k]]

\* The mutant of mount_conflict: no mount is ever found to be in the way.
mount_conflict_never(self, name) == FALSE

\* self.vfs.mount_points.contains_key(name)
mount_conflict(self, name) == name \in DOMAIN self.vfs.mount_points

\* The loop of parse_mount_points from record i on.
RECURSIVE parse_mount_points_loop(_, _, _)
parse_mount_points_loop(self, mount_dirs, i) ==
    IF i > Len(mount_dirs) THEN Outcome(self, "Ok")
    ELSE LET dir == mount_dirs[i]
             name == Lookup(dir, CONFIG_MOUNT_DIR_NAME)
             source == Lookup(dir, CONFIG_MOUNT_DIR_SOURCE)
         IN  IF ~name.some THEN Outcome(self, "MountDirsParseError")
             ELSE IF ~AsStr(name.val).some THEN Outcome(self, "MountDirsParseError")
             ELSE IF ~source.some THEN Outcome(self, "MountDirsParseError")
             ELSE IF ~AsStr(source.val).some THEN Outcome(self, "MountDirsParseError")
             ELSE IF mount_conflict(self, AsStr(name.val).val)
             THEN Outcome(self, "ConflictingMounts")
             ELSE parse_mount_points_loop(
                      [self EXCEPT !.vfs.mount_points =
                           Insert(@, AsStr(name.val).val,
                                  clean_path_string(AsStr(source.val).val))],
                      mount_dirs, i + 1)

parse_mount_points(self, source) ==
    LET mount_dirs == Get(source, CONFIG_MOUNT_DIRS)
    IN  IF ~mount_dirs.some THEN Outcome(self, "Ok")
        ELSE IF mount_dirs.val.type # "Array" THEN Outcome(self, "MountDirsParseError")
        ELSE parse_mount_points_loop(self, mount_dirs.val.items, 1)

\* The mutant of parse_ddns: a key that is missing or no string is left empty.
parse_ddns_lenient(self, source) ==
    LET ddns == Get(source, CONFIG_DDNS)
        Field(key) ==
            IF Get(ddns.val.fields, key).some /\ AsStr(Get(ddns.val.fields, key).val).some
            THEN AsStr(Get(ddns.val.fields, key).val).val
            ELSE <<>>
    IN  IF ~ddns.some THEN Outcome(self, "Ok")
        ELSE IF ddns.val.type # "Table" THEN Outcome(self, "DDNSParseError")
        ELSE Outcome([self EXCEPT !.ddns =
                          Some([host |-> Field(CONFIG_DDNS_HOST),
                                username |-> Field(CONFIG_DDNS_USERNAME),
                                password |-> Field(CONFIG_DDNS_PASSWORD)])], "Ok")

parse_ddns(self, source) ==
    LET ddns == Get(source, CONFIG_DDNS)
        host == Get(ddns.val.fields, CONFIG_DDNS_HOST)
        username == Get(ddns.val.fields, CONFIG_DDNS_USERNAME)
        password == Get(ddns.val.fields, CONFIG_DDNS_PASSWORD)
    IN  IF ~ddns.some THEN Outcome(self, "Ok")
        ELSE IF ddns.val.type # "Table" THEN Outcome(self, "DDNSParseError")
        ELSE IF ~host.some THEN Outcome(self, "DDNSParseError")
        ELSE IF ~username.some THEN Outcome(self, "DDNSParseError")
        ELSE IF ~password.some THEN Outcome(self, "DDNSParseError")
        ELSE IF ~AsStr(host.val).some THEN Outcome(self, "DDNSParseError")
        ELSE IF ~AsStr(username.val).some THEN Outcome(self, "DDNSParseError")
        ELSE IF ~AsStr(password.val).some THEN Outcome(self, "DDNSParseError")
        ELSE Outcome([self EXCEPT !.ddns =
                          Some([host |-> AsStr(host.val).val,
                                username |-> AsStr(username.val).val,
                                password |-> AsStr(password.val).val])], "Ok")

\* -------------------------------------------------------------- documents

\* The table holding the keys whose option is Some.
MkTable(opts) == [k \in {key \in DOMAIN opts : opts[key].some} |-> opts[k].val]

SeqsUpTo(S, n) == UNION {[1..k -> S] : k \in 0..n}

\* The arrays a document can hold are of one type: of tables, or of integers.
ArraysUpTo(tables, n) == SeqsUpTo(tables, n) \cup SeqsUpTo({VInteger(I64Zero)}, n)

I64(neg, mag) == [neg |-> neg, mag |-> mag]
I64Max == I64(FALSE, <<32767, LimbMax, LimbMax, LimbMax>>)
I64Min == I64(TRUE, <<32768, 0, 0, 0>>)
I64Samples ==
    {I64Zero, I64(FALSE, <<0, 0, 0, 1>>), I64(FALSE, <<0, 0, 0, 1800>>),
     I64(FALSE, <<0, 0, 1, 0>>), I64(FALSE, <<0, 7, 0, 9>>), I64Max,
     I64(TRUE, <<0, 0, 0, 1>>), I64(TRUE, <<0, 0, 0, 1800>>),
     I64(TRUE, <<0, 0, 1, 0>>), I64(TRUE, <<0, 7, 0, 9>>),
     I64(TRUE, <<32767, LimbMax, LimbMax, LimbMax>>), I64Min}

AnInteger == VInteger(I64(FALSE, <<0, 0, 0, 1>>))

MountNames == {<<"m">>, <<"v">>, <<"p">>}
MountSources == {<<"a", "/", "b">>, <<"a", "\\", "b", "\\">>}
MountRecord(name, source) ==
    VTable(MkTable(CONFIG_MOUNT_DIR_NAME :> name @@ CONFIG_MOUNT_DIR_SOURCE :> source))
GoodMountRecords ==
    {MountRecord(Some(VString(n)), Some(VString(s))) : n \in MountNames, s \in MountSources}
BadMountRecords ==
    {MountRecord(None, Some(VString(<<"a">>))),
     MountRecord(Some(AnInteger), Some(VString(<<"a">>))),
     MountRecord(Some(VString(<<"m">>)), None),
     MountRecord(Some(VString(<<"m">>)), Some(AnInteger))}
MountArrays == ArraysUpTo(GoodMountRecords \cup BadMountRecords, MaxMounts)

UserFields(text) == {None, Some(AnInteger), Some(VString(<<>>)), Some(VString(text))}
UserRecords ==
    {VTable(MkTable(CONFIG_USER_NAME :> n @@ CONFIG_USER_PASSWORD :> pw)) :
        n \in UserFields(<<"u">>), pw \in UserFields(<<"w">>)}
UserArrays == ArraysUpTo(UserRecords, MaxUsers)

DdnsFields(text) == {None, Some(AnInteger), Some(VString(text))}
DdnsValues ==
    {AnInteger} \cup
    {VTable(MkTable(CONFIG_DDNS_HOST :> h @@ CONFIG_DDNS_USERNAME :> u
                    @@ CONFIG_DDNS_PASSWORD :> pw)) :
        h \in DdnsFields(<<"h">>), u \in DdnsFields(<<"n">>), pw \in DdnsFields(<<"w">>)}

Document(secret, sleep, mounts, users, art, ddns) ==
    MkTable(CONFIG_SECRET :> secret @@ CONFIG_INDEX_SLEEP_DURATION :> sleep
            @@ CONFIG_MOUNT_DIRS :> mounts @@ CONFIG_USERS :> users
            @@ CONFIG_ALBUM_ART_PATTERN :> art @@ CONFIG_DDNS :> ddns)

ASecret == Some(VString(<<"s">>))

\* Documents in which every section is absent, of the wrong type, malformed
\* or valid, in every combination.
DocsSections ==
    {Document(secret, sleep, mounts, users, art, ddns) :
        secret \in {None, Some(AnInteger), ASecret},
        sleep \in {None, Some(VString(<<"5">>)), Some(AnInteger)},
        mounts \in {None, Some(VString(<<"a">>)),
                    Some(VArray(<<MountRecord(Some(VString(<<"m">>)), None)>>)),
                    Some(VArray(<<MountRecord(Some(VString(<<"m">>)), Some(VString(<<"a">>))),
                                  MountRecord(Some(VString(<<"m">>)), Some(VString(<<"b">>)))>>)),
                    Some(VArray(<<MountRecord(Some(VString(<<"m">>)), Some(VString(<<"a">>))),
                                  MountRecord(Some(VString(<<"v">>)), Some(VString(<<"b">>)))>>))},
        users \in {None, Some(AnInteger),
                   Some(VArray(<<VTable(MkTable(CONFIG_USER_NAME :> Some(VString(<<"u">>))))>>)),
                   Some(VArray(<<VTable(MkTable(CONFIG_USER_NAME :> Some(VString(<<"u">>))
                                               @@ CONFIG_USER_PASSWORD :> Some(VString(<<"w">>))))>>))},
        art \in {None, Some(AnInteger), Some(VString(<<"(">>)), Some(VString(<<"(", "a", ")">>))},
        ddns \in {None, Some(VString(<<"h">>)),
                  Some(VTable(MkTable(CONFIG_DDNS_HOST :> Some(VString(<<"h">>))
                                      @@ CONFIG_DDNS_USERNAME :> Some(VString(<<"n">>))))),
                  Some(VTable(MkTable(CONFIG_DDNS_HOST :> Some(VString(<<"h">>))
                                      @@ CONFIG_DDNS_USERNAME :> Some(VString(<<"n">>))
                                      @@ CONFIG_DDNS_PASSWORD :> Some(VString(<<"w">>)))))}}

\* Documents with a secret and one other section, that section taking every
\* value of its family.
DocsMounts == {Document(ASecret, None, Some(VArray(a)), None, None, None) : a \in MountArrays}
DocsUsers == {Document(ASecret, None, None, Some(VArray(a)), None, None) : a \in UserArrays}
DocsDdns == {Document(ASecret, None, None, None, None, Some(d)) : d \in DdnsValues}
DocsSleep == {Document(ASecret, Some(VInteger(n)), None, None, None, None) : n \in I64Samples}

Docs == DocsSections \cup DocsMounts \cup DocsUsers \cup DocsDdns \cup DocsSleep

\* What the config file may hold: a text the document parser rejects, or the
\* text of one of the documents.
BrokenText == [syntax_ok |-> FALSE, tree |-> NoFields]
FileContents == {BrokenText} \cup {[syntax_ok |-> TRUE, tree |-> d] : d \in Docs}

\* String::new(): the empty text, which is the document without keys.
StringNew == [syntax_ok |-> TRUE, tree |-> NoFields]

\* The mutant of TomlParserParse: a rejected text counts as an empty document.
TomlParserParseOrEmpty(content) == Some(content.tree)

\* toml::Parser::new(content).parse(): the table, or None for a rejected text.
TomlParserParse(content) == IF content.syntax_ok THEN Some(content.tree) ELSE None

\* What utils::get_cache_root() may give: an error, or a directory.
CacheRoots == {None, Some(<<"/", "c">>), Some(<<"c", "/">>)}

Alphabet == {"/", "\\", ".", "a", "b"}
PathStrings == SeqsUpTo(Alphabet, MaxLen)

\* ------------------------------------------------------------------ state

VARIABLES
    pc,             \* the stage Config::parse is about to run, or "done"
    config_file_content,  \* the text read from the config file
    parsed_config,  \* the document parser's result: None, or Some table
    config,         \* the Config under construction
    result,         \* "none" while running, then "Ok" or the error returned
    calls,          \* the calls Config::parse has made, in order
    cache_root,     \* what utils::get_cache_root() gives in this environment
    path_writes,    \* the number of assignments to config.index.path
    path_string,    \* the argument of a stand-alone clean_path_string
    cleaned         \* None, or the paths obtained from path_string's variants

vars == <<pc, config_file_content, parsed_config, config, result, calls, cache_root, path_writes,
          path_string, cleaned>>

path_vars == <<path_string, cleaned>>

Init ==
    /\ pc = "path"
    /\ config_file_content = StringNew
    /\ parsed_config = None
    /\ config = ConfigNew
    /\ result = "none"
    /\ calls = <<>>
    /\ cache_root \in CacheRoots
    /\ path_writes = 0
    /\ path_string = <<>>
    /\ cleaned = None

\* return Err(error)
Fail(error) == pc' = "done" /\ result' = error

\* Lines 69-79: the path given, or the default file of the config root.
ResolvePath ==
    /\ pc = "path"
    /\ \E custom_path \in BOOLEAN, config_root \in BOOLEAN :
          IF custom_path
          THEN pc' = "open" /\ UNCHANGED <<result, calls>>
          ELSE /\ calls' = Append(calls, "get_config_root")
               /\ IF config_root
                  THEN pc' = "open" /\ UNCHANGED result
                  ELSE Fail("ConfigDirectoryError")
    /\ UNCHANGED <<config_file_content, parsed_config, config, cache_root, path_writes,
                   path_vars>>

\* Line 82: fs::File::open
OpenFile ==
    /\ pc = "open"
    /\ calls' = Append(calls, "File::open")
    /\ \E opened \in BOOLEAN :
          IF opened THEN pc' = "read" /\ UNCHANGED result ELSE Fail("IoError")
    /\ UNCHANGED <<config_file_content, parsed_config, config, cache_root, path_writes,
                   path_vars>>

\* Lines 83-84: read_to_string
ReadFile ==
    /\ pc = "read"
    /\ calls' = Append(calls, "read_to_string")
    /\ \E read \in BOOLEAN, content \in FileContents :
          IF read
          THEN pc' = "toml" /\ config_file_content' = content /\ UNCHANGED result
          ELSE Fail("IoError") /\ UNCHANGED config_file_content
    /\ UNCHANGED <<parsed_config, config, cache_root, path_writes, path_vars>>

\* Lines 85-94: the document parser gives a table or nothing; with a table the
\* Config is constructed (it is ConfigNew from the start here: nothing reads it
\* before).
ParseDocument ==
    /\ pc = "toml"
    /\ calls' = Append(calls, "Parser::parse")
    /\ parsed_config' = TomlParserParse(config_file_content)
    /\ IF parsed_config'.some THEN pc' = "secret" /\ UNCHANGED result
       ELSE Fail("TOMLParseError")
    /\ config' = ConfigNew
    /\ UNCHANGED <<config_file_content, cache_root, path_writes, path_vars>>

\* try!(config.parser(&parsed_config)): the call, then the next stage or the
\* return of its error.
FieldStep(stage, parser, outcome, next) ==
    /\ pc = stage
    /\ calls' = Append(calls, parser)
    /\ config' = outcome.self
    /\ IF outcome.result = "Ok" THEN pc' = next /\ UNCHANGED result
       ELSE Fail(outcome.result)
    /\ UNCHANGED <<config_file_content, parsed_config, cache_root, path_writes, path_vars>>

ParseSecret ==
    FieldStep("secret", "parse_secret", parse_secret(config, parsed_config.val), "sleep")

ParseIndexSleepDuration ==
    FieldStep("sleep", "parse_index_sleep_duration",
              parse_index_sleep_duration(config, parsed_config.val), "mounts")

ParseMountPoints ==
    FieldStep("mounts", "parse_mount_points",
              parse_mount_points(config, parsed_config.val), "users")

ParseUsers ==
    FieldStep("users", "parse_users", parse_users(config, parsed_config.val), "art")

ParseAlbumArtPattern ==
    FieldStep("art", "parse_album_art_pattern",
              parse_album_art_pattern(config, parsed_config.val), "ddns")

ParseDdns ==
    FieldStep("ddns", "parse_ddns", parse_ddns(config, parsed_config.val), "cache")

\* The mutant of ResolveCache: without a cache root the Config is returned
\* with the index path it was constructed with.
ResolveCacheFallback ==
    /\ pc = "cache"
    /\ calls' = Append(calls, "get_cache_root")
    /\ IF cache_root.some
       THEN /\ config' = [config EXCEPT !.index.path =
                              PathBufPush(cache_root.val, INDEX_FILE_NAME)]
            /\ path_writes' = path_writes + 1
       ELSE UNCHANGED <<config, path_writes>>
    /\ pc' = "done"
    /\ result' = "Ok"
    /\ UNCHANGED <<config_file_content, parsed_config, cache_root, path_vars>>

\* Lines 103-110: the cache root, then the index path, then Ok(config).
ResolveCache ==
    /\ pc = "cache"
    /\ calls' = Append(calls, "get_cache_root")
    /\ IF cache_root.some
       THEN /\ config' = [config EXCEPT !.index.path =
                              PathBufPush(cache_root.val, INDEX_FILE_NAME)]
            /\ path_writes' = path_writes + 1
            /\ pc' = "done"
            /\ result' = "Ok"
       ELSE Fail("CacheDirectoryError") /\ UNCHANGED <<config, path_writes>>
    /\ UNCHANGED <<config_file_content, parsed_config, cache_root, path_vars>>

Next ==
    \/ ResolvePath
    \/ OpenFile
    \/ ReadFile
    \/ ParseDocument
    \/ ParseSecret
    \/ ParseIndexSleepDuration
    \/ ParseMountPoints
    \/ ParseUsers
    \/ ParseAlbumArtPattern
    \/ ParseDdns
    \/ ResolveCache

Spec == Init /\ [][Next]_vars

\* ------------------------------------------- clean_path_string on its own

\* s with every character `from` replaced by `to`.
ReplaceAll(s, from, to) == [i \in DOMAIN s |-> IF s[i] = from THEN to ELSE s[i]]

InitPath ==
    /\ pc = "done"
    /\ config_file_content = StringNew
    /\ parsed_config = None
    /\ config = ConfigNew
    /\ result = "none"
    /\ calls = <<>>
    /\ cache_root = None
    /\ path_writes = 0
    /\ path_string \in PathStrings
    /\ cleaned = None

\* clean_path_string applied to path_string as given, with its backslashes
\* made forward slashes, with its forward slashes made backslashes, and with
\* one more separator of either kind at its end.
CleanPathString ==
    /\ cleaned = None
    /\ cleaned' = Some(
           [given |-> clean_path_string(path_string),
            forward |-> clean_path_string(ReplaceAll(path_string, "\\", "/")),
            backward |-> clean_path_string(ReplaceAll(path_string, "/", "\\")),
            trailing_forward |-> clean_path_string(Append(path_string, "/")),
            trailing_backward |-> clean_path_string(Append(path_string, "\\"))])
    /\ UNCHANGED <<pc, config_file_content, parsed_config, config, result, calls,
                   cache_root, path_writes, path_string>>

NextPath == CleanPathString

SpecPath == InitPath /\ [][NextPath]_vars

\* ------------------------------------------------- what the claims speak of

Called(parser) == \E i \in DOMAIN calls : calls[i] = parser
LastCall == IF calls = <<>> THEN "" ELSE calls[Len(calls)]

\* The document, once the document parser has given one.
Doc == parsed_config.val
Has(key) == parsed_config.some /\ key \in DOMAIN Doc

IsString(table, key) == key \in DOMAIN table /\ table[key].type = "String"

\* A record with string members k1 and k2.
WellFormedRecord(record, k1, k2) ==
    /\ record.type = "Table"
    /\ IsString(record.fields, k1)
    /\ IsString(record.fields, k2)

AllWellFormed(value, k1, k2) ==
    /\ value.type = "Array"
    /\ \A i \in DOMAIN value.items : WellFormedRecord(value.items[i], k1, k2)

MountName(record) == record.fields[CONFIG_MOUNT_DIR_NAME].str
MountSource(record) == record.fields[CONFIG_MOUNT_DIR_SOURCE].str

SharedName(items) ==
    \E i, j \in DOMAIN items : i # j /\ MountName(items[i]) = MountName(items[j])

\* Each section's validity, stated on the document alone.
SecretValid(doc) == IsString(doc, CONFIG_SECRET)
SleepValid(doc) ==
    CONFIG_INDEX_SLEEP_DURATION \in DOMAIN doc
        => doc[CONFIG_INDEX_SLEEP_DURATION].type = "Integer"
MountsValid(doc) ==
    CONFIG_MOUNT_DIRS \in DOMAIN doc =>
        /\ AllWellFormed(doc[CONFIG_MOUNT_DIRS], CONFIG_MOUNT_DIR_NAME, CONFIG_MOUNT_DIR_SOURCE)
        /\ ~SharedName(doc[CONFIG_MOUNT_DIRS].items)
UsersValid(doc) ==
    CONFIG_USERS \in DOMAIN doc =>
        AllWellFormed(doc[CONFIG_USERS], CONFIG_USER_NAME, CONFIG_USER_PASSWORD)
ArtValid(doc) ==
    CONFIG_ALBUM_ART_PATTERN \in DOMAIN doc =>
        /\ doc[CONFIG_ALBUM_ART_PATTERN].type = "String"
        /\ RegexNew(doc[CONFIG_ALBUM_ART_PATTERN].str).some
DdnsComplete(value) ==
    /\ value.type = "Table"
    /\ IsString(value.fields, CONFIG_DDNS_HOST)
    /\ IsString(value.fields, CONFIG_DDNS_USERNAME)
    /\ IsString(value.fields, CONFIG_DDNS_PASSWORD)
DdnsValid(doc) == CONFIG_DDNS \in DOMAIN doc => DdnsComplete(doc[CONFIG_DDNS])

ParserOrder ==
    <<"parse_secret", "parse_index_sleep_duration", "parse_mount_points", "parse_users",
      "parse_album_art_pattern", "parse_ddns">>
SectionValid(doc) ==
    <<SecretValid(doc), SleepValid(doc), MountsValid(doc), UsersValid(doc), ArtValid(doc),
      DdnsValid(doc)>>
SectionErrors ==
    <<{"SecretParseError"}, {"SleepDurationParseError"},
      {"MountDirsParseError", "ConflictingMounts"}, {"UsersParseError"},
      {"AlbumArtPatternParseError", "RegexError"}, {"DDNSParseError"}>>
FieldErrors == UNION {SectionErrors[i] : i \in DOMAIN SectionErrors}

\* The first invalid section of the document in the parsers' order; 0 if none.
FirstInvalid(doc) ==
    LET bad == {i \in DOMAIN ParserOrder : ~SectionValid(doc)[i]}
    IN  IF bad = {} THEN 0 ELSE CHOOSE i \in bad : \A j \in bad : i <= j

\* The field parsers called so far, in order.
FieldCalls == SelectSeq(calls, LAMBDA c : \E i \in DOMAIN ParserOrder : ParserOrder[i] = c)

\* ------------------------------------------------------------------ claims

\* C1: for a mount_dirs array of well-formed records, once parse_mount_points
\* has run the load has failed with ConflictingMounts if and only if two
\* records, at any positions, share a name; otherwise vfs.mount_points holds
\* exactly one entry per record, each record's name mapped to its own
\* normalized source.
C1_ConflictIffSharedName ==
    (/\ Called("parse_mount_points")
     /\ Has(CONFIG_MOUNT_DIRS)
     /\ AllWellFormed(Doc[CONFIG_MOUNT_DIRS], CONFIG_MOUNT_DIR_NAME, CONFIG_MOUNT_DIR_SOURCE))
    => LET items == Doc[CONFIG_MOUNT_DIRS].items
           mount_points == config.vfs.mount_points
       IN  /\ (result = "ConflictingMounts") <=> SharedName(items)
           /\ result # "MountDirsParseError"
           /\ ~SharedName(items) =>
                 /\ Cardinality(DOMAIN mount_points) = Len(items)
                 /\ \A i \in DOMAIN items :
                       /\ MountName(items[i]) \in DOMAIN mount_points
                       /\ Components(mount_points[MountName(items[i])])
                             = Components(clean_path_string(MountSource(items[i])))

\* Three well-formed records of which the first and the third, not adjacent,
\* share a name: the load has failed with ConflictingMounts.
C1_Witness ==
    /\ result = "ConflictingMounts"
    /\ LET items == Doc[CONFIG_MOUNT_DIRS].items
       IN  /\ Len(items) = 3
           /\ AllWellFormed(Doc[CONFIG_MOUNT_DIRS], CONFIG_MOUNT_DIR_NAME,
                            CONFIG_MOUNT_DIR_SOURCE)
           /\ MountName(items[1]) = MountName(items[3])
           /\ MountName(items[1]) # MountName(items[2])

\* C2: the field parsers called are always the first ones of the fixed order,
\* and a finished load whose document has an invalid section has called the
\* parsers up to the earliest invalid section and no further, and returned an
\* error of that section; a document without auth_secret gives
\* SecretParseError.
C2_FirstInvalidSectionReported ==
    /\ FieldCalls = SubSeq(ParserOrder, 1, Len(FieldCalls))
    /\ (pc = "done" /\ parsed_config.some) =>
          LET k == FirstInvalid(Doc)
          IN  /\ k # 0 => /\ result \in SectionErrors[k]
                          /\ FieldCalls = SubSeq(ParserOrder, 1, k)
                          /\ ~Called("get_cache_root")
              /\ k = 0 => /\ result \in {"Ok", "CacheDirectoryError"}
                          /\ FieldCalls = ParserOrder
              /\ CONFIG_SECRET \notin DOMAIN Doc => result = "SecretParseError"

\* A document without secret whose users and ydns sections are invalid too has
\* failed with SecretParseError.
C2_Witness ==
    /\ pc = "done"
    /\ parsed_config.some
    /\ CONFIG_SECRET \notin DOMAIN Doc
    /\ ~UsersValid(Doc)
    /\ ~DdnsValid(Doc)
    /\ result = "SecretParseError"
    /\ FieldCalls = <<"parse_secret">>

\* C3: ddns is None, or holds the strings at host, username and password of a
\* ydns table that has all three; once parse_ddns has run on a document with a
\* ydns section, the section lacking a string key (or being no table) gives
\* DDNSParseError with ddns None, and a complete section gives ddns Some.
C3_DdnsAllOrNothing ==
    /\ config.ddns.some =>
          /\ Has(CONFIG_DDNS)
          /\ DdnsComplete(Doc[CONFIG_DDNS])
          /\ config.ddns.val =
                [host |-> Doc[CONFIG_DDNS].fields[CONFIG_DDNS_HOST].str,
                 username |-> Doc[CONFIG_DDNS].fields[CONFIG_DDNS_USERNAME].str,
                 password |-> Doc[CONFIG_DDNS].fields[CONFIG_DDNS_PASSWORD].str]
    /\ (Called("parse_ddns") /\ Has(CONFIG_DDNS)) =>
          IF DdnsComplete(Doc[CONFIG_DDNS])
          THEN config.ddns.some /\ result # "DDNSParseError"
          ELSE ~config.ddns.some /\ result = "DDNSParseError"

\* A ydns table with host and username but no password: DDNSParseError, and
\* ddns is None.
C3_Witness ==
    /\ result = "DDNSParseError"
    /\ Doc[CONFIG_DDNS].type = "Table"
    /\ IsString(Doc[CONFIG_DDNS].fields, CONFIG_DDNS_HOST)
    /\ IsString(Doc[CONFIG_DDNS].fields, CONFIG_DDNS_USERNAME)
    /\ CONFIG_DDNS_PASSWORD \notin DOMAIN Doc[CONFIG_DDNS].fields
    /\ ~config.ddns.some

\* The strings of test_clean_path_string.
TestForward == <<"C", ":", "/", "s", "o", "m", "e", "/", "p", "a", "t", "h">>
TestBackward == <<"C", ":", "\\", "s", "o", "m", "e", "\\", "p", "a", "t", "h">>
TestCorrectPath ==
    PathBufPush(PathBufPush(PathBufPush(<<>>, <<"C", ":">>), <<"s", "o", "m", "e">>),
                <<"p", "a", "t", "h">>)

\* C4: the paths clean_path_string gives for a string, for the string with
\* forward slashes only and for the string with backslashes only have the same
\* components, and so has the string with one more separator at its end; the
\* three strings of the test give the components C:, some, path.
C4_SeparatorInvariant ==
    /\ cleaned.some =>
          /\ Components(cleaned.val.forward) = Components(cleaned.val.given)
          /\ Components(cleaned.val.backward) = Components(cleaned.val.given)
          /\ Components(cleaned.val.trailing_forward) = Components(cleaned.val.given)
          /\ Components(cleaned.val.trailing_backward) = Components(cleaned.val.given)
    /\ \A s \in {TestForward, TestBackward, Append(TestBackward, "\\")} :
          /\ Components(clean_path_string(s)) = Components(TestCorrectPath)
          /\ Components(clean_path_string(s)).names
                = <<<<"C", ":">>, <<"s", "o", "m", "e">>, <<"p", "a", "t", "h">>>>

\* A string with both separators has been cleaned, and has two components.
C4_Witness ==
    /\ cleaned.some
    /\ path_string = <<"a", "\\", "b", "/">>
    /\ Components(cleaned.val.given).names = <<<<"a">>, <<"b">>>>

\* C5: index.path is assigned at most once, never before the cache root is
\* asked for, and the cache root is asked for only after the six field parsers
\* have run on a document whose every section is valid; a successful load has
\* assigned it once, to the cache root followed by index.sqlite, and a document
\* with an invalid section gives that section's error whatever the cache root.
C5_IndexPathOnceAfterParsers ==
    /\ path_writes <= 1
    /\ ~Called("get_cache_root") =>
          path_writes = 0 /\ config.index.path = IndexConfigNew.path
    /\ Called("get_cache_root") =>
          /\ FieldCalls = ParserOrder
          /\ FirstInvalid(Doc) = 0
          /\ result = (IF cache_root.some THEN "Ok" ELSE "CacheDirectoryError")
    /\ result = "Ok" =>
          /\ path_writes = 1
          /\ Components(config.index.path) =
                [root |-> Components(cache_root.val).root,
                 names |-> Append(Components(cache_root.val).names, INDEX_FILE_NAME)]
    /\ result # "Ok" => config.index.path = IndexConfigNew.path
    /\ (pc = "done" /\ parsed_config.some /\ FirstInvalid(Doc) # 0) =>
          result \in FieldErrors

\* A load of a document with mounts, users, pattern and ydns has succeeded and
\* has written the index path once.
C5_Witness ==
    /\ result = "Ok"
    /\ path_writes = 1
    /\ Has(CONFIG_MOUNT_DIRS)
    /\ Has(CONFIG_USERS)
    /\ Has(CONFIG_ALBUM_ART_PATTERN)
    /\ Has(CONFIG_DDNS)

StageOrder ==
    <<"get_config_root", "File::open", "read_to_string", "Parser::parse">>
        \o ParserOrder \o <<"get_cache_root">>

\* C6: the calls made are always the first ones of the order resolve, open,
\* read, parse document, field parsers (the resolve step making no call for a
\* given path); a text the document parser rejects gives TOMLParseError with no
\* field parser called, so that a field-level error is only ever returned for
\* a text that has a tree; and IoError is returned with the document parser
\* not called.
C6_StagesInOrder ==
    /\ \/ calls = SubSeq(StageOrder, 1, Len(calls))
       \/ calls = SubSeq(Tail(StageOrder), 1, Len(calls))
    /\ (Called("Parser::parse") /\ ~config_file_content.syntax_ok) =>
          /\ result = "TOMLParseError"
          /\ pc = "done"
          /\ FieldCalls = <<>>
          /\ LastCall = "Parser::parse"
    /\ result \in FieldErrors => config_file_content.syntax_ok
    /\ result = "TOMLParseError" => ~config_file_content.syntax_ok
    /\ result = "IoError" =>
          /\ LastCall \in {"File::open", "read_to_string"}
          /\ ~Called("Parser::parse")

\* A rejected text has been given to the document parser and the load has
\* ended with TOMLParseError.
C6_Witness ==
    /\ ~config_file_content.syntax_ok
    /\ LastCall = "Parser::parse"
    /\ result = "TOMLParseError"

\* The user a well-formed record of the users array stands for.
UserOf(record) ==
    [name |-> record.fields[CONFIG_USER_NAME].str,
     password |-> record.fields[CONFIG_USER_PASSWORD].str]

UserWellFormed(record) == WellFormedRecord(record, CONFIG_USER_NAME, CONFIG_USER_PASSWORD)

\* The number of well-formed records before the first malformed one.
RECURSIVE WellFormedPrefix(_, _)
WellFormedPrefix(items, i) ==
    IF i > Len(items) \/ ~UserWellFormed(items[i]) THEN i - 1
    ELSE WellFormedPrefix(items, i + 1)

\* C7 as stated: every user of a successfully loaded Config has a non-empty
\* name and a non-empty password.
C7_UsersNonEmpty ==
    result = "Ok" =>
        \A i \in DOMAIN config.users :
            config.users[i].name # <<>> /\ config.users[i].password # <<>>

\* C7 amended: the users of a successfully loaded Config are the records of
\* the users array, in order, each with the strings at its name and password
\* keys, which may be empty.
C7_UsersAreTheRecords ==
    (result = "Ok" /\ Has(CONFIG_USERS)) =>
        LET items == Doc[CONFIG_USERS].items
        IN  /\ Len(config.users) = Len(items)
            /\ \A i \in DOMAIN items : config.users[i] = UserOf(items[i])

\* A successful load whose second user has an empty name and an empty password.
C7_Witness ==
    /\ result = "Ok"
    /\ Len(config.users) = 2
    /\ config.users[2].name = <<>>
    /\ config.users[2].password = <<>>

\* C8: a step of the parser of an optional section whose key is absent from
\* the document changes no field of the Config and goes on to the next stage
\* without an error; and a load that succeeds on a document with none of the
\* optional keys gives the built-in reindex interval, no user, no mount point,
\* no album-art pattern and no ddns.
C8_AbsentSectionNoOp ==
    [][/\ \A i \in 2..Len(ParserOrder) :
             (/\ Len(FieldCalls) = i - 1
              /\ FieldCalls' = SubSeq(ParserOrder, 1, i)
              /\ <<CONFIG_SECRET, CONFIG_INDEX_SLEEP_DURATION, CONFIG_MOUNT_DIRS,
                   CONFIG_USERS, CONFIG_ALBUM_ART_PATTERN, CONFIG_DDNS>>[i] \notin DOMAIN Doc)
             => config' = config /\ result' = "none" /\ pc' # "done"
       /\ (/\ result' = "Ok"
           /\ DOMAIN parsed_config'.val = {CONFIG_SECRET})
          => /\ config'.index.sleep_duration = IndexConfigNew.sleep_duration
             /\ config'.index.album_art_pattern = None
             /\ config'.users = <<>>
             /\ DOMAIN config'.vfs.mount_points = {}
             /\ config'.ddns = None]_vars

\* A load of a document with nothing but the secret has succeeded, the reindex
\* interval being the built-in one.
C8_Witness ==
    /\ result = "Ok"
    /\ DOMAIN Doc = {CONFIG_SECRET}
    /\ config.index.sleep_duration = DefaultSleepDuration
    /\ FieldCalls = ParserOrder

\* C9 as stated: when parse_users has returned UsersParseError the users list
\* is as it was before the call, that is empty.
C9_NoPartialUsers ==
    (LastCall = "parse_users" /\ result = "UsersParseError") => config.users = <<>>

\* C9 amended: once parse_users has run on a users array with a malformed
\* record, the load has ended with UsersParseError and returns no Config, and
\* the users list of the Config under construction holds the well-formed
\* records that precede the first malformed one, and nothing else.
C9_ErrorKeepsPrecedingUsers ==
    (/\ Called("parse_users")
     /\ Has(CONFIG_USERS)
     /\ Doc[CONFIG_USERS].type = "Array"
     /\ ~UsersValid(Doc))
    => LET items == Doc[CONFIG_USERS].items
           n == WellFormedPrefix(items, 1)
       IN  /\ result = "UsersParseError"
           /\ pc = "done"
           /\ LastCall = "parse_users"
           /\ Len(config.users) = n
           /\ \A i \in 1..n : config.users[i] = UserOf(items[i])

\* A users array whose first record is well-formed and whose second is not:
\* UsersParseError, and the first user is in the list.
C9_Witness ==
    /\ result = "UsersParseError"
    /\ Len(Doc[CONFIG_USERS].items) = 2
    /\ UserWellFormed(Doc[CONFIG_USERS].items[1])
    /\ Len(config.users) = 1

\* C10: once parse_index_sleep_duration has run on an integer n, no
\* SleepDurationParseError has been returned and the reindex interval is
\* n mod 2^64: n itself if n >= 0, and otherwise the value that added to -n
\* gives 2^64 (all limbs zero, carry out of the top one); -1 gives 2^64 - 1.
C10_IntervalIsIntegerMod2To64 ==
    (/\ Called("parse_index_sleep_duration")
     /\ Has(CONFIG_INDEX_SLEEP_DURATION)
     /\ Doc[CONFIG_INDEX_SLEEP_DURATION].type = "Integer")
    => LET n == Doc[CONFIG_INDEX_SLEEP_DURATION].int
           stored == config.index.sleep_duration
       IN  /\ result # "SleepDurationParseError"
           /\ (~n.neg \/ n.mag = U64Zero) => stored = n.mag
           /\ (n.neg /\ n.mag # U64Zero) =>
                 AddU64(stored, n.mag) = [sum |-> U64Zero, carry |-> 1]
           /\ n = I64(TRUE, <<0, 0, 0, 1>>) => stored = U64Max

\* The interval -1 has been stored as 2^64 - 1 and the load has succeeded.
C10_Witness ==
    /\ result = "Ok"
    /\ Has(CONFIG_INDEX_SLEEP_DURATION)
    /\ Doc[CONFIG_INDEX_SLEEP_DURATION].int = I64(TRUE, <<0, 0, 0, 1>>)
    /\ config.index.sleep_duration = U64Max

====
